---- MODULE Spec2Model ----
(***************************************************************************)
(* Toujoubot: the WebM -> DCA demuxer, the fan-out writer, the cache and   *)
(* the playback loop, as state machines.                                   *)
(*                                                                         *)
(*   Spec        the bot: concurrently handled play requests, each with    *)
(*               its HandleMessage goroutine, its background conversion    *)
(*               goroutine and its PlayAudio call.                         *)
(*   FairSpec    Spec with the Go scheduler's fairness (liveness claims).  *)
(*   CodecSpec   HandleBinary / convertWebmToDca and the PlayAudio read    *)
(*               loop as functions of byte strings.                        *)
(*   FanoutSpec  MultiWriter.Write over in-memory sinks.                   *)
(*   PlaySpec    PlayAudio called with each kind of audio source.          *)
(*   LoadSpec    LoadAudioCache over a directory listing, with file names  *)
(*               as character strings.                                     *)
(***************************************************************************)
EXTENDS Integers, Sequences, FiniteSets, TLC

VARIABLES
    \* ---- the bot (Spec) ----
    pc,               \* request -> position of its HandleMessage/PlayAudio goroutine
    req,              \* request -> the message's inputs (guild, voice channel, videoID)
    loc,              \* request -> PlayAudio's locals (vc, exists, frameLen, frame)
    cache,            \* request -> AudioCache of the Processor HandleMessage created
    mainCache,        \* AudioCache of the Processor main() created and loaded
    disk,             \* id -> the file audio/<id>.dca
    conv,             \* request -> its background conversion goroutine
    pipe,             \* request -> the io.Pipe between conversion and PlayAudio
    src,              \* request -> the audio source handed to PlayAudio
    VoiceConnections, \* guild -> voice connection (Bot.VoiceConnections)
    session,          \* guild -> voice connection (discordgo's own table)
    vcs,              \* voice connection -> its state
    events,           \* request -> what its PlayAudio did to the playback sink, in order
    msgs,             \* request -> messages sent to the requester's text channel
    media,            \* the container the media URL serves
    crashed,          \* an unrecovered panic ended the process
    faults,           \* failures the disk may still answer a dcaFile.Write with
    \* ---- CodecSpec ----
    cIn,              \* the container handed to convertWebmToDca
    cPos,             \* elements parsed so far
    cOut,             \* buffers handed to p.w.Write, in order
    cRes,             \* "run", "ok" or "panic"
    dIn,              \* the byte stream handed to the read loop
    dOff,             \* bytes consumed from it
    dSent,            \* frames sent to vc.OpusSend, in order
    dRes,             \* "wait", "run", "eof", "errlen" or "errdata"
    \* ---- FanoutSpec ----
    mwSinks,          \* the wrapped sinks' contents, in list order
    mwRet,            \* what the last Write returned
    mwHist,           \* each Write call so far: its buffer, the sink that failed, the sinks before
    \* ---- LoadSpec ----
    dir,              \* what os.ReadDir("audio") returned
    dirPos            \* entries LoadAudioCache's loop has been through

botVars   == <<pc, req, loc, cache, mainCache, disk, conv, pipe, src,
               VoiceConnections, session, vcs, events, msgs, media, crashed, faults>>
codecVars == <<cIn, cPos, cOut, cRes, dIn, dOff, dSent, dRes>>
mwVars    == <<mwSinks, mwRet, mwHist>>
loadVars  == <<dir, dirPos>>
vars      == <<botVars, codecVars, mwVars, loadVars>>

----------------------------------------------------------------------------
(* Bounds of the model.                                                    *)

MaxFaults   == 1   \* Spec: dcaFile.Write calls that fail, per run
FaultBytes  == 1   \* Spec: bytes a failing dcaFile.Write has written (a short write)
MaxWrites   == 3   \* FanoutSpec: MultiWriter.Write calls per run
MaxStreamLen == 6  \* CodecSpec: length of the arbitrary streams the read loop is given

Arrival  == <<"r1", "r2">>     \* the play requests, in the order their handlers start
Requests == {Arrival[i] : i \in DOMAIN Arrival}
Guilds   == {"g1"}
Channels == {"c1", "c2"}
IDs      == {"a", "b"}
None     == "none"

----------------------------------------------------------------------------
(* Byte strings.                                                           *)

Zeros(n) == [i \in 1..n |-> 0]

Take(s, n) == SubSeq(s, 1, n)

Drop(s, n) == SubSeq(s, n + 1, Len(s))

RECURSIVE Flatten(_)
Flatten(ss) == IF ss = <<>> THEN <<>> ELSE Head(ss) \o Flatten(Tail(ss))

IsPrefix(s, t) == Len(s) <= Len(t) /\ s = Take(t, Len(s))

\* uint16 arithmetic wraps modulo 2^16
Uint16(n) == n % 65536

\* The same two bytes in the other order (a fault seeded to test C7).
PutUint16BigEndian(v) == << (v \div 256) % 256, v % 256 >>

\* binary.LittleEndian.PutUint16
PutUint16(v) == << v % 256, (v \div 256) % 256 >>

\* binary.LittleEndian.Uint16 (what binary.Read decodes into frameLen)
GetUint16(b) == b[1] + 256 * b[2]

----------------------------------------------------------------------------
(* The demuxer: MyParser and convertWebmToDca.                             *)

\* An element of the container: a binary leaf with its bytes, a master with
\* its child elements, or a leaf of another kind.
SimpleBlock(value) == [kind |-> "SimpleBlock", value |-> value, children |-> <<>>]
Binary(value)      == [kind |-> "Binary", value |-> value, children |-> <<>>]
MasterOf(children) == [kind |-> "Master", value |-> <<>>, children |-> children]
Leaf(kind)         == [kind |-> kind, value |-> <<>>, children |-> <<>>]

\* HandleMasterBegin returns true: mkvparse descends into the master.
HandleMasterBegin(e) == TRUE

\* The handler calls mkvparse.Parse makes for a container, in order: one for
\* each element, a master's children right after the master when its
\* HandleMasterBegin said to descend (HandleMasterEnd does nothing).
RECURSIVE Walk(_)
Walk(elems) ==
    IF elems = <<>> THEN <<>>
    ELSE LET e == Head(elems)
         IN  <<e>> \o (IF e.kind = "Master" /\ HandleMasterBegin(e)
                        THEN Walk(e.children) ELSE <<>>)
                  \o Walk(Tail(elems))

\* value[4:] panics when len(value) < 4
HandleBinaryPanics(e) == e.kind = "SimpleBlock" /\ Len(e.value) < 4

\* The length prefix HandleBinary computes: uint16(len(value)) - 4
FrameLenOf(value) == Uint16(Uint16(Len(value)) - 4)

\* The buffer HandleBinary builds: 2 bytes of length, then value[4:]
OpusOf(value) == PutUint16(FrameLenOf(value)) \o Drop(value, 4)

\* A handler that does not look at the element id and writes a Frame for
\* every binary element (a fault seeded to test C5).
EmitsOfAnyBinary(e) ==
    IF e.kind \in {"SimpleBlock", "Binary"} THEN << OpusOf(e.value) >> ELSE << >>

\* What a handler call hands to p.w.Write: one buffer for a SimpleBlock,
\* nothing for every other element.
EmitsOf(e) == IF e.kind = "SimpleBlock" THEN << OpusOf(e.value) >> ELSE << >>

\* The next SimpleBlock after position pos (Len(elems) + 1: none is left);
\* the handlers of the elements in between do nothing.
NextBlock(elems, pos) ==
    LET later == {k \in (pos + 1)..Len(elems) : elems[k].kind = "SimpleBlock"}
    IN  IF later = {} THEN Len(elems) + 1
        ELSE CHOOSE k \in later : \A j \in later : k <= j

----------------------------------------------------------------------------
(* io.ReadFull, as binary.Read and the read loop use it.                   *)

\* io.ReadFull on bytes that are all there already (a file): n bytes, or
\* EOF when none is left, or ErrUnexpectedEOF when fewer than n are.
ReadFullAt(data, off, n) ==
    LET avail == Len(data) - off
    IN  IF n = 0 THEN [err |-> None, got |-> <<>>]
        ELSE IF avail <= 0 THEN [err |-> "EOF", got |-> <<>>]
        ELSE IF avail < n
             THEN [err |-> "ErrUnexpectedEOF", got |-> SubSeq(data, off + 1, Len(data))]
             ELSE [err |-> None, got |-> SubSeq(data, off + 1, off + n)]

\* A write at a file offset: past the end the gap reads as zeros.
WriteAt(data, off, p) ==
    IF off >= Len(data) THEN data \o Zeros(off - Len(data)) \o p
    ELSE Take(data, off) \o p \o Drop(data, off + Len(p))

----------------------------------------------------------------------------
(* The bot's data.                                                         *)

\* filepath.Join("audio", videoID+".dca")
PathOf(id) == "audio/" \o id \o ".dca"

\* Containers the media URL may serve.  bad: the stream is malformed after
\* its last element, so mkvparse.Parse returns an error there.
Block1 == SimpleBlock(<<7, 7, 7, 7, 1>>)
Block2 == SimpleBlock(<<7, 7, 7, 7, 2, 3>>)

GoodMedia  == [elems |-> Walk(<<MasterOf(<<Block1, Leaf("String"), Block2>>)>>), bad |-> FALSE]
TruncMedia == [elems |-> <<Block1, SimpleBlock(<<7, 7, 7, 7>>)>>, bad |-> TRUE]
ShortMedia == [elems |-> <<Block1, SimpleBlock(<<7, 7, 7>>), Block2>>, bad |-> FALSE]

Medias == {GoodMedia, TruncMedia, ShortMedia}

\* Every buffer a conversion of m hands to the fan-out writer, in order.
RECURSIVE FramesFrom(_, _)
FramesFrom(elems, pos) ==
    LET k == NextBlock(elems, pos)
    IN  IF k > Len(elems) \/ HandleBinaryPanics(elems[k]) THEN <<>>
        ELSE <<OpusOf(elems[k].value)>> \o FramesFrom(elems, k)

NoFile   == [exists |-> FALSE, data |-> <<>>]
NoConv   == [st |-> "none", id |-> None, pos |-> 0, woff |-> 0, fileOpen |-> FALSE,
             bodyOpen |-> FALSE, err |-> FALSE,
             fileLog |-> <<>>,    \* what dcaFile.Write took, call by call
             pipeLog |-> <<>>,    \* what pipeWriter.Write delivered, call by call
             werrs |-> <<>>]      \* the sink each failed MultiWriter.Write failed at
NoPipe   == [pending |-> <<>>, wclosed |-> FALSE, rclosed |-> FALSE]
NoSrc    == [kind |-> "none", id |-> None, roff |-> 0, open |-> FALSE]
NoLoc    == [vc |-> None, frameLen |-> 0, buf |-> <<>>]
NoVc     == [channel |-> None, connected |-> FALSE, speaking |-> FALSE]
NoReq    == [guild |-> None, channel |-> None, videoID |-> "", target |-> None]

\* The files a previous run of the bot left complete in audio/: main()
\* indexes them with LoadAudioCache before the bot starts.
OldIDs   == {"a"}
OldFile  == [exists |-> TRUE, data |-> Flatten(FramesFrom(GoodMedia.elems, 0))]

\* The bot as bot.New leaves it: no request yet, no voice connection.
BotIdle ==
    /\ pc = [r \in Requests |-> "idle"]
    /\ req = [r \in Requests |-> NoReq]
    /\ loc = [r \in Requests |-> NoLoc]
    /\ cache = [r \in Requests |-> << >>]
    /\ conv = [r \in Requests |-> NoConv]
    /\ pipe = [r \in Requests |-> NoPipe]
    /\ src = [r \in Requests |-> NoSrc]
    /\ VoiceConnections = [g \in Guilds |-> None]
    /\ session = [g \in Guilds |-> None]
    /\ vcs = [r \in Requests |-> NoVc]
    /\ events = [r \in Requests |-> <<>>]
    /\ msgs = [r \in Requests |-> {}]
    /\ crashed = FALSE

\* The bot as main() leaves it, over the audio/ directory of the previous run.
BotStart ==
    /\ BotIdle
    /\ mainCache = [i \in OldIDs |-> PathOf(i)]
    /\ disk = [i \in IDs |-> IF i \in OldIDs THEN OldFile ELSE NoFile]

\* The world around the bot: what the media URL serves, and whether the disk
\* may fail a write.
BotWorld(m) ==
    /\ media = m
    /\ faults = IF m = GoodMedia THEN MaxFaults ELSE 0

CodecIdle ==
    /\ cIn = <<>> /\ cPos = 0 /\ cOut = <<>> /\ cRes = "none"
    /\ dIn = <<>> /\ dOff = 0 /\ dSent = <<>> /\ dRes = "wait"

FanoutIdle ==
    /\ mwSinks = <<>> /\ mwRet = [n |-> 0, err |-> 0] /\ mwHist = <<>>

LoadIdle == dir = <<>> /\ dirPos = 0

Init ==
    /\ BotStart
    /\ \E m \in Medias : BotWorld(m)
    /\ CodecIdle
    /\ FanoutIdle
    /\ LoadIdle

\* m[k] := v on a map held as a function
Put(m, k, v) == [x \in DOMAIN m \cup {k} |-> IF x = k THEN v ELSE m[x]]

Say(r, text) == msgs' = [msgs EXCEPT ![r] = @ \cup {text}]

----------------------------------------------------------------------------
(* Bot.HandleMessage, up to the goroutine it starts.                       *)

\* The voice channels r's author may be in.  Channels are interchangeable, so
\* the first request's is called c1.
ChannelsOf(r) == IF r = Arrival[1] THEN {"c1"} ELSE Channels

\* HandleMessage for a message holding "-p <query>".  byUrl: the query is a
\* YouTube link holding id; otherwise it is free text that yt-dlp will
\* resolve to id.  inVoice: FindUserVoiceChannel finds the author.
HandleMessage(r) ==
    /\ ~crashed
    /\ pc[r] = "idle"
    /\ \A i, j \in DOMAIN Arrival : (i < j /\ Arrival[j] = r) => pc[Arrival[i]] # "idle"
    /\ \E g \in Guilds, c \in ChannelsOf(r), id \in IDs, byUrl \in BOOLEAN,
          inVoice \in BOOLEAN :
          LET videoID   == IF byUrl THEN id ELSE ""
              processor == << >>      \* audioProcessor.NewProcessor(): an empty AudioCache
          IN  /\ req' = [req EXCEPT ![r] = [guild |-> g, channel |-> c,
                                            videoID |-> videoID, target |-> id]]
              /\ cache' = [cache EXCEPT ![r] = processor]
              /\ IF ~inVoice
                 THEN /\ Say(r, "You need to be in a voice channel")
                      /\ pc' = [pc EXCEPT ![r] = "done"]
                      /\ src' = src
                 ELSE IF videoID # "" /\ videoID \in DOMAIN processor
                 THEN /\ Say(r, "Found cached audio")
                      /\ src' = [src EXCEPT ![r] = [kind |-> "path", id |-> videoID,
                                                    roff |-> 0, open |-> FALSE]]
                      /\ pc' = [pc EXCEPT ![r] = "play"]
                 ELSE /\ Say(r, IF videoID # "" THEN "Processing audio" ELSE "Searching for")
                      /\ src' = src
                      /\ pc' = [pc EXCEPT ![r] = "stat"]
    /\ UNCHANGED <<loc, mainCache, disk, conv, pipe, VoiceConnections, session, vcs,
                   events, media, crashed, faults, codecVars, mwVars, loadVars>>

----------------------------------------------------------------------------
(* Processor.ProcessYouTubeAudio, and the lines of HandleMessage's         *)
(* goroutine that follow its return.                                       *)

\* HandleMessage lines 134-148: the id -> path entry written once
\* ProcessYouTubeAudio has returned (the id is read back from the file name
\* when the request carried none).
Register(c, id) == Put(c, id, PathOf(id))

\* Lines 160-170: the file-exists check.  A hit opens the file and returns it.
ProcessStat(r) ==
    /\ ~crashed
    /\ pc[r] = "stat"
    /\ LET videoID == req[r].videoID
       IN  IF videoID # "" /\ disk[videoID].exists
           THEN /\ src' = [src EXCEPT ![r] = [kind |-> "file", id |-> videoID,
                                              roff |-> 0, open |-> TRUE]]
                /\ cache' = [cache EXCEPT ![r] = Register(@, videoID)]
                /\ pc' = [pc EXCEPT ![r] = "play"]
           ELSE /\ pc' = [pc EXCEPT ![r] = "acquire"]
                /\ UNCHANGED <<src, cache>>
    /\ UNCHANGED <<req, loc, mainCache, disk, conv, pipe, VoiceConnections, session,
                   vcs, events, msgs, media, crashed, faults, codecVars, mwVars, loadVars>>

\* os.Create: the file exists and is empty, whatever it held
Created(d, id) == [d EXCEPT ![id] = [exists |-> TRUE, data |-> <<>>]]

\* A ProcessYouTubeAudio whose returns for a failed media GET do not close
\* the pipe reader (a fault seeded to test C25).
AcquireLeavesReaderOpen(r) ==
    /\ ~crashed
    /\ pc[r] = "acquire"
    /\ \E outcome \in {"ok", "yt-dlp failed", "create failed", "get failed",
                        "status not 200"} :
          LET id == IF req[r].videoID = "" THEN req[r].target ELSE req[r].videoID
          IN  CASE outcome = "yt-dlp failed" ->
                     /\ Say(r, "Error processing audio")
                     /\ pc' = [pc EXCEPT ![r] = "done"]
                     /\ UNCHANGED <<disk, conv, pipe, src, cache>>
                [] outcome = "create failed" ->
                     /\ Say(r, "Error processing audio")
                     /\ pc' = [pc EXCEPT ![r] = "done"]
                     /\ pipe' = [pipe EXCEPT ![r].rclosed = TRUE]
                     /\ UNCHANGED <<disk, conv, src, cache>>
                [] outcome \in {"get failed", "status not 200"} ->
                     /\ Say(r, "Error processing audio")
                     /\ pc' = [pc EXCEPT ![r] = "done"]
                     /\ disk' = Created(disk, id)
                     /\ UNCHANGED <<conv, pipe, src, cache>>
                [] outcome = "ok" ->
                     /\ disk' = Created(disk, id)
                     /\ conv' = [conv EXCEPT ![r] = [NoConv EXCEPT !.st = "parse", !.id = id,
                                                     !.fileOpen = TRUE, !.bodyOpen = TRUE]]
                     /\ src' = [src EXCEPT ![r] = [kind |-> "pipe", id |-> id,
                                                   roff |-> 0, open |-> TRUE]]
                     /\ cache' = [cache EXCEPT ![r] = Register(@, id)]
                     /\ pc' = [pc EXCEPT ![r] = "play"]
                     /\ UNCHANGED <<pipe, msgs>>
    /\ UNCHANGED <<req, loc, mainCache, VoiceConnections, session, vcs, events, media,
                   crashed, faults, codecVars, mwVars, loadVars>>

\* A ProcessYouTubeAudio that returns its reader only once the conversion
\* is over (a fault seeded to test C23).
AcquireBuffered(r) ==
    /\ ~crashed
    /\ pc[r] = "acquire"
    /\ \E outcome \in {"ok", "yt-dlp failed", "create failed", "get failed",
                        "status not 200"} :
          LET id == IF req[r].videoID = "" THEN req[r].target ELSE req[r].videoID
          IN  CASE outcome = "yt-dlp failed" ->
                     /\ Say(r, "Error processing audio")
                     /\ pc' = [pc EXCEPT ![r] = "done"]
                     /\ UNCHANGED <<disk, conv, pipe, src, cache>>
                [] outcome = "create failed" ->
                     /\ Say(r, "Error processing audio")
                     /\ pc' = [pc EXCEPT ![r] = "done"]
                     /\ pipe' = [pipe EXCEPT ![r].rclosed = TRUE]
                     /\ UNCHANGED <<disk, conv, src, cache>>
                [] outcome \in {"get failed", "status not 200"} ->
                     /\ Say(r, "Error processing audio")
                     /\ pc' = [pc EXCEPT ![r] = "done"]
                     /\ disk' = Created(disk, id)
                     /\ pipe' = [pipe EXCEPT ![r].rclosed = TRUE]
                     /\ UNCHANGED <<conv, src, cache>>
                [] outcome = "ok" ->
                     /\ disk' = Created(disk, id)
                     /\ conv' = [conv EXCEPT ![r] = [NoConv EXCEPT !.st = "done", !.id = id,
                                                     !.pos = Len(media.elems)]]
                     /\ src' = [src EXCEPT ![r] = [kind |-> "pipe", id |-> id,
                                                   roff |-> 0, open |-> TRUE]]
                     /\ cache' = [cache EXCEPT ![r] = Register(@, id)]
                     /\ pc' = [pc EXCEPT ![r] = "play"]
                     /\ UNCHANGED <<pipe, msgs>>
    /\ UNCHANGED <<req, loc, mainCache, VoiceConnections, session, vcs, events, media,
                   crashed, faults, codecVars, mwVars, loadVars>>

\* Lines 172-267: yt-dlp, os.Create, http.Get, and the start of the
\* background conversion.  outcome: what the collaborators answer (the
\* media GET fails with an error, or answers with a status other than 200).
Acquire(r) ==
    /\ ~crashed
    /\ pc[r] = "acquire"
    /\ \E outcome \in {"ok", "yt-dlp failed", "create failed", "get failed",
                        "status not 200"} :
          LET id == IF req[r].videoID = "" THEN req[r].target ELSE req[r].videoID
          IN  CASE outcome = "yt-dlp failed" ->
                     /\ Say(r, "Error processing audio")
                     /\ pc' = [pc EXCEPT ![r] = "done"]
                     /\ UNCHANGED <<disk, conv, pipe, src, cache>>
                [] outcome = "create failed" ->
                     /\ Say(r, "Error processing audio")
                     /\ pc' = [pc EXCEPT ![r] = "done"]
                     /\ pipe' = [pipe EXCEPT ![r].rclosed = TRUE]
                     /\ UNCHANGED <<disk, conv, src, cache>>
                [] outcome \in {"get failed", "status not 200"} ->
                     /\ Say(r, "Error processing audio")
                     /\ pc' = [pc EXCEPT ![r] = "done"]
                     /\ disk' = Created(disk, id)
                     /\ pipe' = [pipe EXCEPT ![r].rclosed = TRUE]
                     /\ UNCHANGED <<conv, src, cache>>
                [] outcome = "ok" ->
                     /\ disk' = Created(disk, id)
                     /\ conv' = [conv EXCEPT ![r] = [NoConv EXCEPT !.st = "parse", !.id = id,
                                                     !.fileOpen = TRUE, !.bodyOpen = TRUE]]
                     /\ src' = [src EXCEPT ![r] = [kind |-> "pipe", id |-> id,
                                                   roff |-> 0, open |-> TRUE]]
                     /\ cache' = [cache EXCEPT ![r] = Register(@, id)]
                     /\ pc' = [pc EXCEPT ![r] = "play"]
                     /\ UNCHANGED <<pipe, msgs>>
    /\ UNCHANGED <<req, loc, mainCache, VoiceConnections, session, vcs, events, media,
                   crashed, faults, codecVars, mwVars, loadVars>>

----------------------------------------------------------------------------
(* The background conversion: the goroutine of lines 249-265, running      *)
(* convertWebmToDca over MultiWriter{dcaFile, pipeWriter}.                 *)

\* pipeWriter.Write(p) on a pipe whose read side is closed fails at once;
\* otherwise it blocks, offering p, until the reader has taken all of it.
PipeOffer(p, buf) == IF p.rclosed THEN p ELSE [p EXCEPT !.pending = buf]

\* A fan-out that goes on to the pipe after the file's write failed (a fault
\* seeded to test C3).
MWAfterFileNoReturn(fileErr, p, buf) == PipeOffer(p, buf)

\* MultiWriter.Write after dcaFile.Write: an error returns at once, so the
\* pipe is not written; otherwise the loop goes on to pipeWriter.Write.
MWAfterFile(fileErr, p, buf) == IF fileErr THEN p ELSE PipeOffer(p, buf)

\* One HandleBinary call: the parser reaches the next SimpleBlock, builds the
\* buffer and enters MultiWriter.Write: dcaFile.Write, then pipeWriter.Write.
\* A block shorter than 4 bytes panics in value[4:] and nothing recovers it.
\* A dcaFile.Write that fails has written fewer than len(opus) bytes;
\* HandleBinary drops the error MultiWriter.Write returns and returns nil, so
\* the parse goes on.
ConvHandleBinary(r) ==
    /\ ~crashed
    /\ conv[r].st = "parse"
    /\ LET c == conv[r]
           k == NextBlock(media.elems, c.pos)
       IN  /\ k <= Len(media.elems)
           /\ IF HandleBinaryPanics(media.elems[k])
              THEN /\ crashed' = TRUE
                   /\ UNCHANGED <<conv, disk, pipe, faults>>
              ELSE \E fileErr \in IF faults > 0 THEN BOOLEAN ELSE {FALSE} :
                   LET opus    == OpusOf(media.elems[k].value)
                       wrote   == IF fileErr THEN Take(opus, FaultBytes) ELSE opus
                       p2      == MWAfterFile(fileErr, pipe[r], opus)
                       pipeErr == ~fileErr /\ pipe[r].rclosed
                   IN  /\ crashed' = crashed
                       /\ faults' = IF fileErr THEN faults - 1 ELSE faults
                       /\ disk' = [disk EXCEPT ![c.id].data = WriteAt(@, c.woff, wrote)]
                       /\ pipe' = [pipe EXCEPT ![r] = p2]
                       /\ conv' = [conv EXCEPT
                             ![r].pos = k,
                             ![r].woff = @ + Len(wrote),
                             ![r].fileLog = Append(@, [pos |-> k, data |-> wrote]),
                             ![r].werrs = IF fileErr THEN Append(@, [pos |-> k, sink |-> 1])
                                          ELSE IF pipeErr
                                          THEN Append(@, [pos |-> k, sink |-> 2])
                                          ELSE @,
                             ![r].st = IF p2.pending # <<>> THEN "write" ELSE "parse"]
    /\ UNCHANGED <<pc, req, loc, cache, mainCache, src, VoiceConnections, session, vcs,
                   events, msgs, media, codecVars, mwVars, loadVars>>

\* A pipe write that returns with what the reader has taken so far, without
\* waiting for the rest (a fault seeded to test C22).
ConvWriteReturnEarly(r) ==
    /\ ~crashed
    /\ conv[r].st = "write"
    /\ LET k    == conv[r].pos
           opus == OpusOf(media.elems[k].value)
           n    == Len(opus) - Len(pipe[r].pending)
       IN  conv' = [conv EXCEPT
               ![r].st = "parse",
               ![r].pipeLog = Append(@, [pos |-> k, data |-> Take(opus, n)]),
               ![r].werrs = IF n < Len(opus) THEN Append(@, [pos |-> k, sink |-> 2]) ELSE @]
    /\ pipe' = [pipe EXCEPT ![r].pending = <<>>]
    /\ UNCHANGED <<pc, req, loc, cache, mainCache, disk, src, VoiceConnections, session,
                   vcs, events, msgs, media, crashed, faults, codecVars, mwVars, loadVars>>

\* pipeWriter.Write returns: every byte was read (nil), or the read side was
\* closed meanwhile (io.ErrClosedPipe).  MultiWriter.Write returns that to
\* HandleBinary, which drops it and returns nil, so the parse goes on.
ConvWriteReturn(r) ==
    /\ ~crashed
    /\ conv[r].st = "write"
    /\ pipe[r].pending = <<>> \/ pipe[r].rclosed
    /\ LET k    == conv[r].pos
           opus == OpusOf(media.elems[k].value)
           n    == Len(opus) - Len(pipe[r].pending)
       IN  conv' = [conv EXCEPT
               ![r].st = "parse",
               ![r].pipeLog = Append(@, [pos |-> k, data |-> Take(opus, n)]),
               ![r].werrs = IF n < Len(opus) THEN Append(@, [pos |-> k, sink |-> 2]) ELSE @]
    /\ pipe' = [pipe EXCEPT ![r].pending = <<>>]
    /\ UNCHANGED <<pc, req, loc, cache, mainCache, disk, src, VoiceConnections, session,
                   vcs, events, msgs, media, crashed, faults, codecVars, mwVars, loadVars>>

\* An end of conversion without the deferred pipeWriter.Close (a fault
\* seeded to test C24).
ConvFinishLeavesPipeOpen(r) ==
    /\ ~crashed
    /\ conv[r].st = "parse"
    /\ NextBlock(media.elems, conv[r].pos) > Len(media.elems)
    /\ conv' = [conv EXCEPT ![r].st = "done", ![r].pos = Len(media.elems),
                            ![r].err = media.bad,
                            ![r].fileOpen = FALSE, ![r].bodyOpen = FALSE]
    /\ UNCHANGED <<pc, req, loc, cache, mainCache, disk, pipe, src, VoiceConnections,
                   session, vcs, events, msgs, media, crashed, faults, codecVars, mwVars, loadVars>>

\* mkvparse.Parse returns (nil at the end of the stream, an error on a
\* malformed one, which is only logged) and the deferred calls run:
\* resp.Body.Close, dcaFile.Close, pipeWriter.Close.
ConvFinish(r) ==
    /\ ~crashed
    /\ conv[r].st = "parse"
    /\ NextBlock(media.elems, conv[r].pos) > Len(media.elems)
    /\ conv' = [conv EXCEPT ![r].st = "done", ![r].pos = Len(media.elems),
                            ![r].err = media.bad,
                            ![r].fileOpen = FALSE, ![r].bodyOpen = FALSE]
    /\ pipe' = [pipe EXCEPT ![r].wclosed = TRUE]
    /\ UNCHANGED <<pc, req, loc, cache, mainCache, disk, src, VoiceConnections, session,
                   vcs, events, msgs, media, crashed, faults, codecVars, mwVars, loadVars>>

----------------------------------------------------------------------------
(* Bot.PlayAudio.                                                          *)

Ev(r, e) == events' = [events EXCEPT ![r] = Append(@, e)]

\* Lines 177-184: the lookup in VoiceConnections and the other-channel check.
PlayCheck(r) ==
    /\ ~crashed
    /\ pc[r] = "play"
    /\ LET vc     == VoiceConnections[req[r].guild]
           exists == vc # None
       IN  IF exists /\ vcs[vc].channel # req[r].channel
           THEN /\ Say(r, "I'm already in another channel")
                /\ pc' = [pc EXCEPT ![r] = "done"]
                /\ loc' = loc
           ELSE /\ loc' = [loc EXCEPT ![r].vc = vc]
                /\ pc' = [pc EXCEPT ![r] = IF exists THEN "speak" ELSE "join"]
                /\ msgs' = msgs
    /\ UNCHANGED <<req, cache, mainCache, disk, conv, pipe, src, VoiceConnections,
                   session, vcs, events, media, crashed, faults, codecVars, mwVars, loadVars>>

\* A join whose error is reported but does not end the call (a fault seeded
\* to test C14).
JoinGoesOnAfterError(r) ==
    /\ ~crashed
    /\ pc[r] = "join"
    /\ LET g  == req[r].guild
           vc == IF session[g] # None THEN session[g] ELSE r
       IN  /\ vcs' = [vcs EXCEPT ![vc] = [channel |-> req[r].channel,
                                          connected |-> TRUE,
                                          speaking |-> vcs[vc].speaking]]
           /\ session' = [session EXCEPT ![g] = vc]
           /\ loc' = [loc EXCEPT ![r].vc = vc]
           /\ pc' = [pc EXCEPT ![r] = "store"]
           /\ \E ok \in BOOLEAN :
                 IF ok THEN msgs' = msgs ELSE Say(r, "Error joining voice channel")
    /\ UNCHANGED <<req, cache, mainCache, disk, conv, pipe, src, VoiceConnections,
                   events, media, crashed, faults, codecVars, mwVars, loadVars>>

\* Line 189: s.ChannelVoiceJoin.  discordgo hands back the guild's live
\* connection when it has one (moving it to the channel) and a new one
\* otherwise; a connection is named after the request that created it.
Join(r) ==
    /\ ~crashed
    /\ pc[r] = "join"
    /\ \E ok \in BOOLEAN :
          IF ok
          THEN LET g  == req[r].guild
                   vc == IF session[g] # None THEN session[g] ELSE r
               IN  /\ vcs' = [vcs EXCEPT ![vc] = [channel |-> req[r].channel,
                                                  connected |-> TRUE,
                                                  speaking |-> vcs[vc].speaking]]
                   /\ session' = [session EXCEPT ![g] = vc]
                   /\ loc' = [loc EXCEPT ![r].vc = vc]
                   /\ pc' = [pc EXCEPT ![r] = "store"]
                   /\ msgs' = msgs
          ELSE /\ Say(r, "Error joining voice channel")
               /\ pc' = [pc EXCEPT ![r] = "done"]
               /\ UNCHANGED <<vcs, session, loc>>
    /\ UNCHANGED <<req, cache, mainCache, disk, conv, pipe, src, VoiceConnections,
                   events, media, crashed, faults, codecVars, mwVars, loadVars>>

\* Line 194: b.VoiceConnections[guildID] = vc
Store(r) ==
    /\ ~crashed
    /\ pc[r] = "store"
    /\ VoiceConnections' = [VoiceConnections EXCEPT ![req[r].guild] = loc[r].vc]
    /\ pc' = [pc EXCEPT ![r] = "speak"]
    /\ UNCHANGED <<req, loc, cache, mainCache, disk, conv, pipe, src, session, vcs,
                   events, msgs, media, crashed, faults, codecVars, mwVars, loadVars>>

\* Lines 197-229: the type switch over the source (a path is opened, a
\* reader is taken as it is), the deferred close, and vc.Speaking(true).
Speak(r) ==
    /\ ~crashed
    /\ pc[r] = "speak"
    /\ IF src[r].kind = "path" /\ ~disk[src[r].id].exists
       THEN /\ Say(r, "Error opening DCA file")
            /\ pc' = [pc EXCEPT ![r] = "done"]
            /\ UNCHANGED <<src, vcs, events>>
       ELSE IF src[r].kind = "invalid"
       THEN /\ Say(r, "Invalid audio source type")
            /\ pc' = [pc EXCEPT ![r] = "done"]
            /\ UNCHANGED <<src, vcs, events>>
       ELSE /\ src' = [src EXCEPT ![r].kind = IF @ = "path" THEN "file" ELSE @,
                                  ![r].open = TRUE]
            /\ vcs' = [vcs EXCEPT ![loc[r].vc].speaking = TRUE]
            /\ Ev(r, [t |-> "start", live |-> vcs[loc[r].vc].connected, data |-> <<>>])
            /\ pc' = [pc EXCEPT ![r] = "readlen"]
            /\ msgs' = msgs
    /\ UNCHANGED <<req, loc, cache, mainCache, disk, conv, pipe, VoiceConnections,
                   session, media, crashed, faults, codecVars, mwVars, loadVars>>

\* One io.ReadFull of n bytes from r's source, as far as it can go now.
\* A file answers at once.  A pipe hands over what the blocked writer
\* offers; it answers EOF only once the write side is closed.
\* more: the call is still short of n bytes and blocks.
CanRead(r) ==
    \/ src[r].kind = "file"
    \/ src[r].kind = "pipe" /\ (pipe[r].pending # <<>> \/ pipe[r].wclosed)

ReadFull(r, n) ==
    IF src[r].kind = "file"
    THEN ReadFullAt(disk[src[r].id].data, src[r].roff, n) @@ [more |-> FALSE]
    ELSE LET have == loc[r].buf
             want == n - Len(have)
             p    == pipe[r].pending
         IN  IF want = 0 THEN [err |-> None, got |-> have, more |-> FALSE]
             ELSE IF p # <<>>
             THEN [err |-> None, got |-> have \o Take(p, want), more |-> Len(p) < want]
             ELSE [err |-> IF have = <<>> THEN "EOF" ELSE "ErrUnexpectedEOF",
                   got |-> have, more |-> FALSE]

\* The bytes a read of n takes off the source.
Consumed(r, n, res) ==
    /\ src' = [src EXCEPT ![r].roff = IF src[r].kind = "file" THEN @ + Len(res.got) ELSE @]
    /\ pipe' = [pipe EXCEPT ![r].pending =
                   IF src[r].kind = "pipe" THEN Drop(@, Len(res.got) - Len(loc[r].buf)) ELSE @]


\* Lines 232-240: binary.Read of the 2-byte length.  EOF before its first
\* byte ends the loop silently; any other error is reported and ends it.
ReadLen(r) ==
    /\ ~crashed
    /\ pc[r] = "readlen"
    /\ CanRead(r)
    /\ LET res == ReadFull(r, 2)
       IN  /\ Consumed(r, 2, res)
           /\ IF res.more
              THEN /\ loc' = [loc EXCEPT ![r].buf = res.got]
                   /\ UNCHANGED <<pc, msgs>>
              ELSE IF res.err = "EOF"
              THEN /\ loc' = [loc EXCEPT ![r].buf = <<>>]
                   /\ pc' = [pc EXCEPT ![r] = "disconnect"]
                   /\ msgs' = msgs
              ELSE IF res.err # None
              THEN /\ loc' = [loc EXCEPT ![r].buf = <<>>]
                   /\ Say(r, "Error reading audio frame")
                   /\ pc' = [pc EXCEPT ![r] = "disconnect"]
              ELSE /\ loc' = [loc EXCEPT ![r].frameLen = GetUint16(res.got),
                                         ![r].buf = <<>>]
                   /\ pc' = [pc EXCEPT ![r] = "readdata"]
                   /\ msgs' = msgs
    /\ UNCHANGED <<req, cache, mainCache, disk, conv, VoiceConnections, session, vcs,
                   events, media, crashed, faults, codecVars, mwVars, loadVars>>

\* Lines 242-249: io.ReadFull of frameLen bytes, then vc.OpusSend <- frame
\* (the sink takes every frame it is sent).  Every read error, EOF included,
\* is reported and ends the loop; the frame is not sent.
ReadData(r) ==
    /\ ~crashed
    /\ pc[r] = "readdata"
    /\ CanRead(r) \/ loc[r].frameLen = 0
    /\ LET res == ReadFull(r, loc[r].frameLen)
       IN  /\ Consumed(r, loc[r].frameLen, res)
           /\ IF res.more
              THEN /\ loc' = [loc EXCEPT ![r].buf = res.got]
                   /\ UNCHANGED <<pc, msgs, events>>
              ELSE IF res.err # None
              THEN /\ loc' = [loc EXCEPT ![r].buf = <<>>, ![r].frameLen = 0]
                   /\ Say(r, "Error reading audio data")
                   /\ pc' = [pc EXCEPT ![r] = "disconnect"]
                   /\ events' = events
              ELSE /\ loc' = [loc EXCEPT ![r].buf = <<>>, ![r].frameLen = 0]
                   /\ Ev(r, [t |-> "frame", live |-> vcs[loc[r].vc].connected,
                             data |-> res.got])
                   /\ pc' = [pc EXCEPT ![r] = "readlen"]
                   /\ msgs' = msgs
    /\ UNCHANGED <<req, cache, mainCache, disk, conv, VoiceConnections, session, vcs,
                   media, crashed, faults, codecVars, mwVars, loadVars>>

\* Line 251: vc.Disconnect() closes the connection and drops it from
\* discordgo's table.
Disconnect(r) ==
    /\ ~crashed
    /\ pc[r] = "disconnect"
    /\ LET vc == loc[r].vc
       IN  /\ vcs' = [vcs EXCEPT ![vc].connected = FALSE, ![vc].speaking = FALSE]
           /\ session' = [g \in Guilds |-> IF session[g] = vc THEN None ELSE session[g]]
           /\ Ev(r, [t |-> "disconnect", live |-> vcs[vc].connected, data |-> <<>>])
    /\ pc' = [pc EXCEPT ![r] = "delete"]
    /\ UNCHANGED <<req, loc, cache, mainCache, disk, conv, pipe, src, VoiceConnections,
                   msgs, media, crashed, faults, codecVars, mwVars, loadVars>>

\* A teardown without the delete of line 252 (a fault seeded to test C13).
DeleteKeepsEntry(r) ==
    /\ ~crashed
    /\ pc[r] = "delete"
    /\ pc' = [pc EXCEPT ![r] = "return"]
    /\ UNCHANGED <<req, loc, cache, mainCache, disk, conv, pipe, src, session, vcs,
                   VoiceConnections, events, msgs, media, crashed, faults, codecVars, mwVars, loadVars>>

\* Line 252: delete(b.VoiceConnections, guildID)
Delete(r) ==
    /\ ~crashed
    /\ pc[r] = "delete"
    /\ VoiceConnections' = [VoiceConnections EXCEPT ![req[r].guild] = None]
    /\ pc' = [pc EXCEPT ![r] = "return"]
    /\ UNCHANGED <<req, loc, cache, mainCache, disk, conv, pipe, src, session, vcs,
                   events, msgs, media, crashed, faults, codecVars, mwVars, loadVars>>

\* A return whose deferred vc.Speaking(false) is missing (a fault seeded to
\* test C15).
ReturnWithoutStop(r) ==
    /\ ~crashed
    /\ pc[r] = "return"
    /\ events' = [events EXCEPT ![r] = Append(@,
          [t |-> "close", live |-> vcs[loc[r].vc].connected, data |-> <<>>])]
    /\ src' = [src EXCEPT ![r].open = FALSE]
    /\ pipe' = [pipe EXCEPT ![r].rclosed = IF src[r].kind = "pipe" THEN TRUE ELSE @]
    /\ pc' = [pc EXCEPT ![r] = "done"]
    /\ UNCHANGED <<req, loc, cache, mainCache, disk, conv, VoiceConnections, session,
                   vcs, msgs, media, crashed, faults, codecVars, mwVars, loadVars>>

\* PlayAudio returns and its deferred calls run, after Disconnect and
\* delete: vc.Speaking(false) (line 229; the connection is closed by then),
\* then closeFunc() (line 226), which closes the file or the pipe's read side.
Return(r) ==
    /\ ~crashed
    /\ pc[r] = "return"
    /\ LET vc == loc[r].vc
       IN  /\ vcs' = [vcs EXCEPT ![vc].speaking = FALSE]
           /\ events' = [events EXCEPT ![r] = @ \o
                 << [t |-> "stop", live |-> vcs[vc].connected, data |-> <<>>],
                    [t |-> "close", live |-> vcs[vc].connected, data |-> <<>>] >>]
    /\ src' = [src EXCEPT ![r].open = FALSE]
    /\ pipe' = [pipe EXCEPT ![r].rclosed = IF src[r].kind = "pipe" THEN TRUE ELSE @]
    /\ pc' = [pc EXCEPT ![r] = "done"]
    /\ UNCHANGED <<req, loc, cache, mainCache, disk, conv, VoiceConnections, session,
                   msgs, media, crashed, faults, codecVars, mwVars, loadVars>>

----------------------------------------------------------------------------
(* The accesses to b.VoiceConnections.  Bot has no mutex and PlayAudio     *)
(* takes no lock: the requests' goroutines reach the map unordered.        *)

\* r's next step reads the map (line 177), stores into it (line 194) or
\* deletes from it (line 252).
AccessesMap(r) == pc[r] \in {"play", "store", "delete"}

\* r's next step stores into the map or deletes from it.
WritesMap(r) == pc[r] \in {"store", "delete"}

\* Two goroutines are in the map at once, one of them writing.  The map has
\* no defined behaviour then; one outcome of the Go runtime is to abort the
\* process ("fatal error: concurrent map writes", "concurrent map read and
\* map write"), the others are the interleavings of the two accesses.
MapRace(q, r) ==
    /\ ~crashed
    /\ q # r
    /\ AccessesMap(q) /\ WritesMap(r)
    /\ crashed' = TRUE
    /\ UNCHANGED <<pc, req, loc, cache, mainCache, disk, conv, pipe, src,
                   VoiceConnections, session, vcs, events, msgs, media, faults,
                   codecVars, mwVars, loadVars>>

----------------------------------------------------------------------------

BotNext ==
    \E r \in Requests :
        \/ \E q \in Requests : MapRace(q, r)
        \/ HandleMessage(r)
        \/ ProcessStat(r)
        \/ Acquire(r)
        \/ ConvHandleBinary(r)
        \/ ConvWriteReturn(r)
        \/ ConvFinish(r)
        \/ PlayCheck(r)
        \/ Join(r)
        \/ Store(r)
        \/ Speak(r)
        \/ ReadLen(r)
        \/ ReadData(r)
        \/ Disconnect(r)
        \/ Delete(r)
        \/ Return(r)

Spec == Init /\ [][BotNext]_vars

\* A goroutine that can run is eventually run.  A request's goroutine and its
\* conversion are fair; whether a message ever arrives is not.
Thread(r) ==
    \/ ProcessStat(r) \/ Acquire(r) \/ PlayCheck(r) \/ Join(r) \/ Store(r) \/ Speak(r)
    \/ ReadLen(r) \/ ReadData(r) \/ Disconnect(r) \/ Delete(r) \/ Return(r)

Conversion(r) == ConvHandleBinary(r) \/ ConvWriteReturn(r) \/ ConvFinish(r)

FairSpec ==
    Spec /\ \A r \in Requests : WF_vars(Thread(r)) /\ WF_vars(Conversion(r))

----------------------------------------------------------------------------
(* PlaySpec: Bot.PlayAudio called with each kind of audio source.          *)

\* What audio/b.dca may hold when PlayAudio is called: nothing, or a cache
\* file cut after n bytes (0..6 of the 7 bytes of the two Frames).
CutFiles == {[exists |-> TRUE, data |-> Take(OldFile.data, n)] : n \in 0..(Len(OldFile.data) - 1)}

PlayInit ==
    /\ BotIdle
    /\ \E f \in {NoFile} \cup CutFiles :
          disk = [i \in IDs |-> IF i \in OldIDs THEN OldFile ELSE f]
    /\ mainCache = [i \in {j \in IDs : disk[j].exists} |-> PathOf(i)]
    /\ BotWorld(TruncMedia)
    /\ CodecIdle
    /\ FanoutIdle
    /\ LoadIdle

\* The audioSource arguments: a path (the string case), an opened file (the
\* io.Reader case), or a value of another type (the default case).
Sources ==
    {[kind |-> "path", id |-> i, roff |-> 0, open |-> FALSE] : i \in IDs}
      \cup {[kind |-> "file", id |-> i, roff |-> 0, open |-> TRUE] : i \in IDs}
      \cup {[kind |-> "invalid", id |-> None, roff |-> 0, open |-> FALSE]}

\* A call b.PlayAudio(s, guildID, voiceChannelID, textChannelID, audioSource).
\* An opened file is one that os.Open could open.
PlayCall(r) ==
    /\ pc[r] = "idle"
    /\ \A i, j \in DOMAIN Arrival : (i < j /\ Arrival[j] = r) => pc[Arrival[i]] # "idle"
    /\ \E g \in Guilds, c \in ChannelsOf(r), source \in Sources :
          /\ source.kind = "file" => disk[source.id].exists
          /\ req' = [req EXCEPT ![r] = [guild |-> g, channel |-> c,
                                        videoID |-> "", target |-> source.id]]
          /\ src' = [src EXCEPT ![r] = source]
          /\ pc' = [pc EXCEPT ![r] = "play"]
    /\ UNCHANGED <<loc, cache, mainCache, disk, conv, pipe, VoiceConnections, session, vcs,
                   events, msgs, media, crashed, faults, codecVars, mwVars, loadVars>>

PlayAudio(r) ==
    \/ PlayCheck(r) \/ Join(r) \/ Store(r) \/ Speak(r)
    \/ ReadLen(r) \/ ReadData(r) \/ Disconnect(r) \/ Delete(r) \/ Return(r)

PlayNext == \E r \in Requests : PlayCall(r) \/ PlayAudio(r)

PlaySpec == PlayInit /\ [][PlayNext]_vars

\* Each call runs in a goroutine of its own, which is scheduled while it can run.
FairPlaySpec == PlaySpec /\ \A r \in Requests : WF_vars(PlayAudio(r))

----------------------------------------------------------------------------
(* Claims about the bot.                                                   *)

\* A conversion writing audio/<id>.dca is still in progress.
Converting(id) ==
    \E q \in Requests : conv[q].id = id /\ conv[q].st \in {"parse", "write"}

\* An id -> path mapping a lookup can observe: an AudioCache entry, or a file
\* the file-exists check of ProcessYouTubeAudio finds.
Visible(id) == disk[id].exists \/ \E r \in Requests : id \in DOMAIN cache[r]

\* C1: every id -> path mapping a lookup can observe references a file whose
\* conversion has finished and whose file is closed; a path is never exposed
\* while the conversion writing it is in progress.
C1_VisibleOnlyWhenComplete ==
    \A id \in IDs : Visible(id) => ~Converting(id)

\* The Speaking loop of PlayAudio and its teardown up to vc.Disconnect.
Speaking(r) == pc[r] \in {"readlen", "readdata"}

\* C2: at most one playback session is active for a guild at any time, also
\* when two requests target the same voice channel.
C2_OneSessionPerGuild ==
    \A r, q \in Requests :
        (Speaking(r) /\ Speaking(q) /\ req[r].guild = req[q].guild) => r = q


\* The buffers of a log, and the positions of the blocks they were built from.
DataOf(log) == [i \in DOMAIN log |-> log[i].data]
PosOf(log)  == [i \in DOMAIN log |-> log[i].pos]

\* The entries of a log that hold the whole buffer of their block.
Whole(log) == SelectSeq(log, LAMBDA e : e.data = OpusOf(media.elems[e.pos].value))

Increasing(s) == \A i, j \in DOMAIN s : i < j => s[i] < s[j]

\* The frames r's PlayAudio has sent to the playback sink.
Sent(r) == DataOf(SelectSeq(events[r], LAMBDA e : e.t = "frame"))

\* The payloads of a sequence of buffers (each without its 2-byte length).
Payloads(bufs) == [i \in DOMAIN bufs |-> Drop(bufs[i], 2)]

\* The payloads of the whole Frames at the head of a byte string, as the
\* Frame format lays them out, and the offset where they end.
RECURSIVE WholeFrames(_, _)
WholeFrames(s, o) ==
    IF Len(s) - o < 2 THEN <<>>
    ELSE LET n == s[o + 1] + 256 * s[o + 2]
         IN  IF Len(s) - o - 2 < n THEN <<>>
             ELSE <<SubSeq(s, o + 3, o + 2 + n)>> \o WholeFrames(s, o + 2 + n)

RECURSIVE FramesEnd(_, _)
FramesEnd(s, o) ==
    IF Len(s) - o < 2 THEN o
    ELSE LET n == s[o + 1] + 256 * s[o + 2]
         IN  IF Len(s) - o - 2 < n THEN o ELSE FramesEnd(s, o + 2 + n)

ConsumerStopped(r) == pc[r] = "done" /\ src[r].kind = "pipe"

\* r's conversion wrote every Frame of the media to the cache file and closed it.
ConversionComplete(r) ==
    /\ conv[r].st = "done"
    /\ ~conv[r].fileOpen
    /\ Len(conv[r].fileLog) = Len(FramesFrom(media.elems, 0))

\* C4: once the playback consumer has stopped reading the live stream (after
\* an error, or without ever reading it: a failed join, a rejection for
\* another channel), the conversion still writes every remaining Frame to
\* the cache file and closes it.  (A process the panic of a short block has
\* ended is left out: that is C6's.)
C4_CacheWriteOutlivesConsumer ==
    \A r \in Requests :
        (ConsumerStopped(r) /\ ~crashed) ~> (ConversionComplete(r) \/ crashed)

----------------------------------------------------------------------------
(* CodecSpec: the demuxer and the read loop on given byte strings.         *)

MaxElems == 2      \* elements of a container

\* A SimpleBlock of n bytes: a 4-byte prefix, then the payload.
BlockOfLen(n) == SimpleBlock([i \in 1..n |-> IF i <= 4 THEN 7 ELSE 1 + (i % 250)])

CodecElems ==
    { BlockOfLen(3), BlockOfLen(4), Block1, Block2, Binary(<<7, 7, 7, 7, 5>>),
      Leaf("String"), Leaf("Integer"), Leaf("Float"), Leaf("Date"),
      MasterOf(<<>>), MasterOf(<<Block2>>), MasterOf(<<Leaf("Integer"), Block1>>),
      MasterOf(<<MasterOf(<<Block1>>)>>) }

\* Containers with a block at the 16-bit limit of the length prefix (a
\* payload of 65535 bytes) and one byte past it.
LongContainers ==
    { <<BlockOfLen(65539)>>, <<BlockOfLen(65539), Block1>>, <<BlockOfLen(65540)>> }

Containers == UNION {[1..n -> CodecElems] : n \in 0..MaxElems}

Streams == UNION {[1..n -> {0, 1, 2}] : n \in 0..MaxStreamLen}

\* Either a container is parsed and what was written is read back, or the
\* read loop is handed a stream as it is.
CodecInit ==
    /\ BotStart /\ BotWorld(GoodMedia) /\ FanoutIdle /\ LoadIdle
    /\ cPos = 0 /\ cOut = <<>> /\ dOff = 0 /\ dSent = <<>>
    /\ \/ cIn \in Containers /\ cRes = "run" /\ dIn = <<>> /\ dRes = "wait"
       \/ cIn = <<>> /\ cRes = "none" /\ dIn \in Streams /\ dRes = "run"
       \/ cIn \in LongContainers /\ cRes = "run" /\ dIn = <<>> /\ dRes = "wait"

\* mkvparse.Parse hands the next element to its handler: HandleBinary for a
\* binary element, HandleMasterBegin, HandleString, ... for the others.
CodecHandle ==
    /\ cRes = "run"
    /\ cPos < Len(Walk(cIn))
    /\ LET e == Walk(cIn)[cPos + 1]
       IN  IF HandleBinaryPanics(e)
           THEN cRes' = "panic" /\ UNCHANGED <<cPos, cOut>>
           ELSE /\ cOut' = cOut \o EmitsOf(e)
                /\ cPos' = cPos + 1
                /\ cRes' = cRes
    /\ UNCHANGED <<cIn, dIn, dOff, dSent, dRes, botVars, mwVars, loadVars>>

\* convertWebmToDca returns nil at the end of the container.
CodecReturn ==
    /\ cRes = "run"
    /\ cPos = Len(Walk(cIn))
    /\ cRes' = "ok"
    /\ UNCHANGED <<cIn, cPos, cOut, dIn, dOff, dSent, dRes, botVars, mwVars, loadVars>>

\* What was written becomes the source of a read loop.
CodecReadBack ==
    /\ cRes = "ok"
    /\ dRes = "wait"
    /\ dIn' = Flatten(cOut)
    /\ dRes' = "run"
    /\ UNCHANGED <<cIn, cPos, cOut, cRes, dOff, dSent, botVars, mwVars, loadVars>>

\* A loop that sends what io.ReadFull got of a payload cut short (a fault
\* seeded to test C10).
LoopPassSendsPartial(data, off) ==
    LET head == ReadFullAt(data, off, 2)
    IN  IF head.err = "EOF" THEN [res |-> "eof", sent |-> <<>>, off |-> off]
        ELSE IF head.err # None THEN [res |-> "errlen", sent |-> <<>>, off |-> off]
        ELSE LET frameLen == GetUint16(head.got)
                 body     == ReadFullAt(data, off + 2, frameLen)
             IN  IF body.err # None
                 THEN [res |-> "errdata", sent |-> <<body.got>>, off |-> off]
                 ELSE [res |-> "run", sent |-> <<body.got>>, off |-> off + 2 + frameLen]

\* One pass of the loop of PlayAudio, lines 231-250, on a source that holds
\* all its bytes: "eof" breaks silently, "errlen" is "Error reading audio
\* frame", "errdata" is "Error reading audio data".
LoopPass(data, off) ==
    LET head == ReadFullAt(data, off, 2)
    IN  IF head.err = "EOF" THEN [res |-> "eof", sent |-> <<>>, off |-> off]
        ELSE IF head.err # None THEN [res |-> "errlen", sent |-> <<>>, off |-> off]
        ELSE LET frameLen == GetUint16(head.got)
                 body     == ReadFullAt(data, off + 2, frameLen)
             IN  IF body.err # None
                 THEN [res |-> "errdata", sent |-> <<>>, off |-> off]
                 ELSE [res |-> "run", sent |-> <<body.got>>, off |-> off + 2 + frameLen]

CodecLoop ==
    /\ dRes = "run"
    /\ LET pass == LoopPass(dIn, dOff)
       IN  /\ dRes' = pass.res
           /\ dSent' = dSent \o pass.sent
           /\ dOff' = pass.off
    /\ UNCHANGED <<cIn, cPos, cOut, cRes, dIn, botVars, mwVars, loadVars>>

CodecNext == CodecHandle \/ CodecReturn \/ CodecReadBack \/ CodecLoop

CodecSpec == CodecInit /\ [][CodecNext]_vars


----------------------------------------------------------------------------
(* Claims about the demuxer and the Frame format.                          *)

\* The values of the SimpleBlocks of a container in stream order, those
\* inside masters included.
RECURSIVE BlockValues(_)
BlockValues(elems) ==
    IF elems = <<>> THEN <<>>
    ELSE LET e == Head(elems)
         IN  (CASE e.kind = "SimpleBlock" -> <<e.value>>
                [] e.kind = "Master"      -> BlockValues(e.children)
                [] OTHER                  -> <<>>)
             \o BlockValues(Tail(elems))

\* The Frame of a block as the Frame format states it: the payload's length
\* in 2 bytes, low byte first, then the block without its first 4 bytes.
FrameOfBlock(v) ==
    << (Len(v) - 4) % 256, (Len(v) - 4) \div 256 >> \o SubSeq(v, 5, Len(v))

FramesOfBlocks(elems) ==
    LET blocks == BlockValues(elems)
    IN  [i \in DOMAIN blocks |-> FrameOfBlock(blocks[i])]

BlocksInRange(elems, lo, hi) ==
    LET blocks == BlockValues(elems)
    IN  \A i \in DOMAIN blocks : Len(blocks[i]) \in lo..hi

ShortBlocks(elems) ==
    LET blocks == BlockValues(elems)
    IN  {i \in DOMAIN blocks : Len(blocks[i]) <= 4}

C6_ShortBlockFailsParse ==
    ShortBlocks(cIn) # {} =>
        /\ cRes \in {"run", "error"}
        /\ \A i \in DOMAIN cOut : Len(cOut[i]) > 2
        /\ \A i \in ShortBlocks(cIn) : Len(cOut) < i

\* C7: encoding payloads of 1..65535 bytes with the Frame writer and
\* decoding the bytes with the Frame reader yields the payloads, in order,
\* and the reader ends on end-of-stream without an error.
PayloadsOf(elems) ==
    LET blocks == BlockValues(elems)
    IN  [i \in DOMAIN blocks |-> SubSeq(blocks[i], 5, Len(blocks[i]))]

C7_RoundTrip ==
    (cRes = "ok" /\ dRes # "wait" /\ BlocksInRange(cIn, 5, 65539)) =>
        /\ IsPrefix(dSent, PayloadsOf(cIn))
        /\ dRes # "run" => (dRes = "eof" /\ dSent = PayloadsOf(cIn))

\* A finished round trip of two payloads of different lengths.
C7_Witness ==
    /\ cRes = "ok" /\ dRes = "eof"
    /\ BlocksInRange(cIn, 5, 9)
    /\ Len(dSent) = 2
    /\ Len(dSent[1]) # Len(dSent[2])

\* C10: the loop sends each fully read Frame's payload unmodified and in
\* order; a source that ends at a Frame boundary ends the loop with no error;
\* one that ends inside a length prefix or a payload ends it with an error
\* message, and the partial payload is not sent.
C10_ReadLoop ==
    dRes # "wait" =>
        /\ IsPrefix(dSent, WholeFrames(dIn, 0))
        /\ dRes # "run" =>
              LET rest == Len(dIn) - FramesEnd(dIn, 0)
              IN  /\ dSent = WholeFrames(dIn, 0)
                  /\ dOff = FramesEnd(dIn, 0)
                  /\ rest = 0 <=> dRes = "eof"
                  /\ rest = 1 <=> dRes = "errlen"
                  /\ rest >= 2 <=> dRes = "errdata"

\* A Frame with a payload was sent, and then the source ended inside the
\* next payload.
C10_Witness ==
    /\ cRes = "none"
    /\ dRes = "errdata"
    /\ dSent # <<>> /\ dSent[1] # <<>>
    /\ Len(dIn) - dOff > 2


----------------------------------------------------------------------------
(* FanoutSpec: MultiWriter over in-memory sinks.                           *)

NSinks == 3        \* wrapped sinks

Buffers == { <<1>>, <<2, 3>> }

\* MultiWriter.Write with the range loop made a tail call that skips every
\* sink from k on, and returns what the last sink written returned (a fault
\* seeded to test C9).
MultiWriterWriteFirstOnly(sinks, k, p, f, m) ==
    IF sinks = <<>> THEN [sinks |-> sinks, n |-> Len(p), err |-> 0]
    ELSE IF f = 1 THEN [sinks |-> [sinks EXCEPT ![1] = @ \o Take(p, m)], n |-> m, err |-> 1]
    ELSE [sinks |-> [sinks EXCEPT ![1] = @ \o p], n |-> Len(p), err |-> 0]

\* MultiWriter.Write without the return inside the loop: a failing sink's
\* error is kept and the sinks after it are written too (a fault seeded to
\* test C8).
RECURSIVE MultiWriterWriteGoesOn(_, _, _, _, _)
MultiWriterWriteGoesOn(sinks, k, p, f, m) ==
    IF k > Len(sinks) THEN [sinks |-> sinks, n |-> IF f = 0 THEN Len(p) ELSE m, err |-> f]
    ELSE IF k = f
    THEN MultiWriterWriteGoesOn([sinks EXCEPT ![k] = @ \o Take(p, m)], k + 1, p, f, m)
    ELSE MultiWriterWriteGoesOn([sinks EXCEPT ![k] = @ \o p], k + 1, p, f, m)

\* MultiWriter.Write(p), from the k-th writer of w.Writers on. The f-th
\* writer's Write fails (0: none does) after taking m < len(p) bytes, and its
\* n and err are returned at once; err is the number of the sink it came
\* from, 0 for nil. After the last writer: len(p), nil.
RECURSIVE MultiWriterWrite(_, _, _, _, _)
MultiWriterWrite(sinks, k, p, f, m) ==
    IF k > Len(sinks) THEN [sinks |-> sinks, n |-> Len(p), err |-> 0]
    ELSE IF k = f
    THEN [sinks |-> [sinks EXCEPT ![k] = @ \o Take(p, m)], n |-> m, err |-> k]
    ELSE MultiWriterWrite([sinks EXCEPT ![k] = @ \o p], k + 1, p, f, m)

FanoutInit ==
    /\ BotStart /\ BotWorld(GoodMedia) /\ CodecIdle /\ LoadIdle
    /\ mwSinks \in {[k \in 1..n |-> <<>>] : n \in 0..NSinks}
    /\ mwRet = [n |-> 0, err |-> 0]
    /\ mwHist = <<>>

\* One call of Write: a buffer, and the sink that fails during the call.
MWWrite ==
    /\ Len(mwHist) < MaxWrites
    /\ \E p \in Buffers, f \in 0..Len(mwSinks) :
         \E m \in IF f = 0 THEN {0} ELSE 0..(Len(p) - 1) :
            LET out == MultiWriterWrite(mwSinks, 1, p, f, m)
            IN  /\ mwSinks' = out.sinks
                /\ mwRet' = [n |-> out.n, err |-> out.err]
                /\ mwHist' = Append(mwHist, [p |-> p, f |-> f, m |-> m, before |-> mwSinks])
    /\ UNCHANGED <<botVars, codecVars, loadVars>>

FanoutNext == MWWrite

FanoutSpec == FanoutInit /\ [][FanoutNext]_vars

----------------------------------------------------------------------------
(* Claims about the fan-out.                                               *)

LastWrite == mwHist[Len(mwHist)]

\* C8: Write writes the buffer to the sinks in list order; when sink i fails
\* it returns that sink's error, the sinks after i receive nothing from the
\* call and the sinks before i have received the whole buffer; when no sink
\* fails it returns len(buffer) and nil.
C8_StopsAtFirstFailure ==
    mwHist # <<>> =>
        LET h == LastWrite
        IN  /\ Len(mwSinks) = Len(h.before)
            /\ \A k \in DOMAIN mwSinks :
                  /\ (h.f = 0 \/ k < h.f) => mwSinks[k] = h.before[k] \o h.p
                  /\ (h.f # 0 /\ k > h.f) => mwSinks[k] = h.before[k]
                  /\ k = h.f => /\ IsPrefix(h.before[k], mwSinks[k])
                                /\ Len(mwSinks[k]) < Len(h.before[k]) + Len(h.p)
            /\ h.f # 0 => mwRet.err = h.f
            /\ h.f = 0 => mwRet = [n |-> Len(h.p), err |-> 0]

\* The second of three sinks failed in a call that followed a whole write:
\* the first holds both buffers, the third only the earlier one.
C8_Witness ==
    /\ Len(mwHist) >= 2
    /\ Len(mwSinks) = 3
    /\ LastWrite.f = 2
    /\ mwHist[Len(mwHist) - 1].f = 0
    /\ mwSinks[3] # <<>>
    /\ Len(mwSinks[1]) > Len(mwSinks[3])

\* C9: after any sequence of Write calls over sinks that never fail, every
\* sink holds the concatenation of the written buffers.
Written == Flatten([i \in DOMAIN mwHist |-> mwHist[i].p])

C9_FanoutIntegrity ==
    (\A i \in DOMAIN mwHist : mwHist[i].f = 0) =>
        \A k \in DOMAIN mwSinks : mwSinks[k] = Written

\* Three sinks after as many writes as a run has, of buffers that differ.
C9_Witness ==
    /\ Len(mwHist) = MaxWrites
    /\ \A i \in DOMAIN mwHist : mwHist[i].f = 0
    /\ \E i, j \in DOMAIN mwHist : mwHist[i].p # mwHist[j].p
    /\ Len(mwSinks) = NSinks


----------------------------------------------------------------------------
(* Claims about the session lifecycle of PlayAudio.                        *)

\* r's PlayAudio holds a voice connection: from the return of a successful
\* ChannelVoiceJoin (or the lookup that found the guild's connection) up to
\* its vc.Disconnect().
Active(r) == pc[r] \in {"store", "speak", "readlen", "readdata", "disconnect"}

\* The step in which r's PlayAudio returns, having held a voice connection.
ReturnsAfterJoin(r) == pc[r] \in {"speak", "return"} /\ pc'[r] = "done"

\* The guild's entry of VoiceConnections belongs to a PlayAudio still running.
MarkerHasSession(g) ==
    \E q \in Requests :
        /\ req[q].guild = g
        /\ pc[q] \in {"speak", "readlen", "readdata", "disconnect", "delete"}
        /\ loc[q].vc = VoiceConnections[g]

\* C11: whenever PlayAudio returns after a successful join (end-of-stream,
\* read error, file-open failure, invalid source type), its voice connection
\* has been disconnected and the guild's entry of VoiceConnections is gone,
\* or belongs to another PlayAudio that is still running.
C11_ReturnReleasesSession ==
    [][\A r \in Requests :
          ReturnsAfterJoin(r) =>
              /\ ~vcs'[loc[r].vc].connected
              /\ VoiceConnections'[req[r].guild] # None => MarkerHasSession(req[r].guild)'
      ]_vars


\* r's PlayAudio passes its first lines (177-184): the lookup and the check.
Checks(r) == pc[r] = "play" /\ pc'[r] # "play"

\* A PlayAudio other than r's holds the guild's voice connection on a channel
\* that is not the one r asks for.
SessionElsewhere(r) ==
    \E q \in Requests \ {r} :
        /\ Active(q)
        /\ req[q].guild = req[r].guild
        /\ vcs[loc[q].vc].channel # req[r].channel

Rejected(r) ==
    /\ pc'[r] = "done"
    /\ "I'm already in another channel" \in msgs'[r]
    /\ UNCHANGED <<VoiceConnections, session, vcs, events, loc>>
    /\ \A q \in Requests \ {r} : pc'[q] = pc[q]

\* C12: a play request for a guild whose active session is on a different
\* voice channel is rejected with the 'already in another channel' message
\* and changes nothing: no join, the VoiceConnections entry unchanged, no
\* Frame sent, the existing session in the same state.
C12_OtherChannelRejected ==
    [][\A r \in Requests : (Checks(r) /\ SessionElsewhere(r)) => Rejected(r)]_vars

\* What does hold of the rejection: a request that finds an entry of
\* VoiceConnections on another channel is rejected and changes nothing.
C12_EntryElsewhereRejected ==
    [][\A r \in Requests :
          (/\ Checks(r)
           /\ VoiceConnections[req[r].guild] # None
           /\ vcs[VoiceConnections[req[r].guild]].channel # req[r].channel) => Rejected(r)
      ]_vars


ReadErrors == {"Error reading audio frame", "Error reading audio data"}

\* r's PlayAudio has returned from a Speaking loop that a read error ended.
FailedMidSpeaking(r) == pc[r] = "done" /\ msgs[r] \cap ReadErrors # {}

\* Every other PlayAudio has ended that way: q's is a subsequent request.
Subsequent(q) == \A r \in Requests \ {q} : FailedMidSpeaking(r)

\* What ends q's PlayAudio before Speaking for a reason of its own.
OwnFailures == {"Error joining voice channel", "Error opening DCA file",
                "Invalid audio source type"}

\* C13: a session that a failure ends in mid-Speaking, no other PlayAudio
\* having started meanwhile, is torn down (the connection disconnected, the
\* guild's entry of VoiceConnections removed), and a subsequent play
\* request for the destination is not rejected: it goes on to join and,
\* unless its own join or source fails, reaches Speaking.
C13_ReleasedAfterFailure ==
    /\ [][\A r \in Requests :
            (/\ pc[r] = "return" /\ pc'[r] = "done" /\ msgs[r] \cap ReadErrors # {}
             /\ \A q \in Requests \ {r} : pc[q] \in {"idle", "play"}) =>
                /\ ~vcs'[loc[r].vc].connected
                /\ VoiceConnections'[req[r].guild] = None
        ]_vars
    /\ [][\A q \in Requests :
            (Checks(q) /\ Subsequent(q)) => (pc'[q] = "join" /\ msgs'[q] = msgs[q])
        ]_vars
    /\ \A q \in Requests :
          (pc[q] = "play" /\ Subsequent(q)) ~>
              (pc[q] \in {"readlen", "readdata"} \/ msgs[q] \cap OwnFailures # {})

\* A request is in Speaking on a connection of its own, joined after the
\* other's session was ended by a read error that followed a Frame.
C13_Witness ==
    \E q, r \in Requests :
        /\ q # r
        /\ FailedMidSpeaking(r) /\ Sent(r) # <<>>
        /\ req[q].channel = req[r].channel
        /\ pc[q] \in {"readlen", "readdata"}
        /\ loc[r].vc = r /\ loc[q].vc = q
        /\ vcs[q].connected /\ VoiceConnections[req[q].guild] = q


JoinFailed(r) == "Error joining voice channel" \in msgs[r]

\* C14: when ChannelVoiceJoin fails, PlayAudio reports the error to the
\* requester and returns (a call leaves line 189 either with a connection or
\* with the message), and a call that reported it never enters Speaking,
\* sends no Frame, and stores no entry in VoiceConnections: it has signalled
\* nothing to a sink and holds no connection.
C14_JoinFailureRegistersNothing ==
    /\ [][\A r \in Requests :
              (pc[r] = "join" /\ pc'[r] # "join") =>
                  \/ pc'[r] = "store" /\ loc'[r].vc # None /\ ~JoinFailed(r)'
                  \/ pc'[r] = "done" /\ JoinFailed(r)']_vars
    /\ [](\A r \in Requests :
              JoinFailed(r) =>
                  /\ pc[r] = "done"
                  /\ events[r] = <<>>
                  /\ loc[r].vc = None
                  /\ vcs[r] = NoVc
                  /\ VoiceConnections[req[r].guild] # r)

\* A join failed while the guild had no entry, and none was left.
C14_Witness ==
    \E r \in Requests :
        /\ JoinFailed(r)
        /\ VoiceConnections[req[r].guild] = None
        /\ \A q \in Requests \ {r} : pc[q] = "idle"


\* The positions in r's record of sink calls that hold a call of kind t.
At(r, t) == {i \in 1..Len(events[r]) : events[r][i].t = t}

LoopEnded(r) == pc[r] \in {"disconnect", "delete", "return"}

\* C15: a PlayAudio that reaches the Speaking loop calls vc.Speaking(true)
\* once, before every Frame it sends, and vc.Speaking(false) once, after
\* every Frame it sent; and once its loop has ended, by end-of-stream or by a
\* read error, the call goes on to vc.Speaking(false).
C15_SpeakingBracketsFrames ==
    /\ [](\A r \in Requests :
              /\ events[r] # <<>> => At(r, "start") = {1}
              /\ \A i \in At(r, "stop") : \A j \in At(r, "frame") : j < i
              /\ Cardinality(At(r, "stop")) <= 1
              /\ (pc[r] = "done" /\ events[r] # <<>>) => At(r, "stop") # {}
              /\ pc[r] \in {"readlen", "readdata"} =>
                     At(r, "start") = {1} /\ At(r, "stop") = {})
    /\ \A r \in Requests : LoopEnded(r) ~> (At(r, "stop") # {})

\* One call ended at end-of-stream and another by a read error, each after
\* Frames were sent, and both have signalled stop-speaking.
C15_Witness ==
    \E q, r \in Requests :
        /\ pc[q] = "done" /\ pc[r] = "done"
        /\ Sent(q) # <<>> /\ Sent(r) # <<>>
        /\ msgs[q] \cap ReadErrors = {}
        /\ msgs[r] \cap ReadErrors # {}
        /\ At(q, "stop") # {} /\ At(r, "stop") # {}


----------------------------------------------------------------------------
(* Claims about the cache.                                                 *)

\* The cache file of id holds every Frame of the media and no conversion is
\* writing it.
CacheComplete(id) == disk[id] = OldFile /\ ~Converting(id)

\* r's ProcessYouTubeAudio gets past the file-exists check of lines 160-170.
PassesStat(r) == pc[r] = "stat" /\ pc'[r] # "stat"

\* r is handed the cache file of its id, and nothing is fetched or created.
ServedFromCache(r) ==
    /\ pc'[r] = "play"
    /\ src'[r].kind = "file" /\ src'[r].id = req[r].target
    /\ cache'[r][req[r].target] = PathOf(req[r].target)
    /\ UNCHANGED <<disk, conv, pipe>>

\* C16: once an id's cache file is complete, every later play request for
\* that id, whether it names the id in a link or reaches it by a search, is
\* served from the cache file and does not go on to yt-dlp, the media GET
\* and a new conversion; the path it gets is the path of the id.
C16_CompleteFileServesLaterRequests ==
    [][\A r \in Requests :
          (PassesStat(r) /\ CacheComplete(req[r].target)) => ServedFromCache(r)]_vars

\* The same, for the requests that carry the id in a YouTube link.
C16_LinkRequestsServedFromCache ==
    [][\A r \in Requests :
          (PassesStat(r) /\ CacheComplete(req[r].target) /\ req[r].videoID # "")
              => ServedFromCache(r)]_vars


\* id is in the index: LoadAudioCache put it there at startup, or the
\* goroutine of an earlier request registered it (HandleMessage line 145).
Indexed(id) ==
    \/ id \in DOMAIN mainCache
    \/ \E q \in Requests : id \in DOMAIN cache[q]

\* HandleMessage takes r's message, which carries a video id, up to the
\* AudioCache lookup of line 106.
LooksUp(r) ==
    /\ pc[r] = "idle" /\ pc'[r] \notin {"idle", "done"}
    /\ req'[r].videoID # ""

\* C17: an id indexed by LoadAudioCache at startup, or registered by an
\* earlier request, is found by the AudioCache lookup HandleMessage makes for
\* a later request carrying that id, which is then played from the path.
C17_IndexSharedByAllRequests ==
    [][\A r \in Requests :
          (LooksUp(r) /\ Indexed(req'[r].videoID)) =>
              /\ "Found cached audio" \in msgs'[r]
              /\ pc'[r] = "play"
              /\ src'[r].kind = "path" /\ src'[r].id = req'[r].videoID]_vars


\* q's conversion ended on a parse error, or after a write to the cache file
\* failed.
ConversionFailed(q) ==
    /\ conv[q].st = "done"
    /\ conv[q].err \/ \E i \in DOMAIN conv[q].werrs : conv[q].werrs[i].sink = 1

\* The cache file of id was left incomplete by a failed request: created and
\* never written (the media GET failed after os.Create), or written by a
\* conversion that failed; and no conversion is writing it now.
LeftIncomplete(id) ==
    /\ disk[id].exists
    /\ ~Converting(id)
    /\ \/ disk[id].data = <<>>
       \/ \E q \in Requests : conv[q].id = id /\ ConversionFailed(q)

\* C18: a cache file left incomplete by a failed request is never returned as
\* valid cached content to a later processing request for that id.
C18_IncompleteFileNeverServed ==
    [][\A r \in Requests :
          (PassesStat(r) /\ LeftIncomplete(req[r].target)) =>
              ~(pc'[r] = "play" /\ src'[r].kind = "file")]_vars


----------------------------------------------------------------------------
(* Claims about the errors of the background conversion.                   *)

\* r's conversion ended on a parse error, or one of its writes to a sink
\* failed.
ConversionErred(r) ==
    conv[r].st = "done" /\ (conv[r].err \/ conv[r].werrs # <<>>)

\* Every message that tells a requester its request failed.
FailureMessages ==
    ReadErrors \cup OwnFailures \cup
        {"Error processing audio", "I'm already in another channel"}

\* C19: a parse error or a sink write error in the background conversion is
\* surfaced to the requester: once the request is over, the requester has
\* been sent a failure message, so the consumer did not take the error for an
\* ordinary end-of-stream with nothing reported.
C19_ConversionErrorSurfaced ==
    \A r \in Requests :
        (ConversionErred(r) /\ pc[r] = "done") => msgs[r] \cap FailureMessages # {}


----------------------------------------------------------------------------
(* Claims about the audio source handed to PlayAudio.                      *)

\* PlayAudio was called for r with an open file or pipe reader and has
\* returned.
ReturnedWithSource(r) == pc[r] = "done" /\ src[r].kind \in {"file", "pipe"}

\* C20: every return path of PlayAudio closes the audio source it was
\* handed: once the call has returned, no open file or pipe reader is left.
C20_EveryReturnClosesSource ==
    \A r \in Requests : ReturnedWithSource(r) => ~src[r].open


----------------------------------------------------------------------------
(* Claims about the shared state.                                          *)

\* C21: accesses to the shared VoiceConnections map by concurrently handled
\* requests are synchronized: two request goroutines are never at an access
\* to the map at the same time with one of them storing or deleting.
C21_MapAccessesSynchronized ==
    \A q, r \in Requests : q # r => ~(AccessesMap(q) /\ WritesMap(r))


----------------------------------------------------------------------------
(* Claims about the coupling of the cache writer and the live reader.      *)

\* r's conversion is between two MultiWriter.Write calls, or past the last.
WriteReturned(r) == conv[r].st \in {"parse", "done"} /\ conv[r].fileLog # <<>>

LastFileWrite(r) == conv[r].fileLog[Len(conv[r].fileLog)]

\* The reader of r's pipe has taken all of the Frame of block k.
ReadWhole(r, k) ==
    \E i \in DOMAIN conv[r].pipeLog :
        /\ conv[r].pipeLog[i].pos = k
        /\ conv[r].pipeLog[i].data = OpusOf(media.elems[k].value)

PipeOpen(r) == ~pipe[r].rclosed

\* r's conversion is blocked in pipeWriter.Write and PlayAudio has returned
\* without closing the read side.
Stalled(r) ==
    /\ conv[r].st = "write" /\ pipe[r].pending # <<>>
    /\ PipeOpen(r) /\ pc[r] = "done"

\* A blocked conversion whose reader is gone never takes another step.
StalledForGood == [][\A r \in Requests : Stalled(r) => conv'[r] = conv[r]]_vars

\* C22 as claimed: while the live pipe is open no fan-out write returns
\* before the consumer has read all of its Frame, so the cache file is never
\* more than one Frame ahead of the consumer, and a consumer that stops
\* reading without closing the pipe stops the cache writer.
C22_BackPressure ==
    /\ [](\A r \in Requests :
             (WriteReturned(r) /\ PipeOpen(r)) => ReadWhole(r, LastFileWrite(r).pos))
    /\ [](\A r \in Requests :
             PipeOpen(r) => Len(conv[r].fileLog) <= Len(Whole(conv[r].pipeLog)) + 1)
    /\ StalledForGood

\* C22 for the fan-out writes whose write to the cache file succeeded: a
\* write that fails at the file returns at once (C8) and offers nothing to
\* the pipe.
C22_BackPressureOfWholeWrites ==
    /\ [](\A r \in Requests :
             (/\ WriteReturned(r) /\ PipeOpen(r)
              /\ LastFileWrite(r).data = OpusOf(media.elems[LastFileWrite(r).pos].value))
                 => ReadWhole(r, LastFileWrite(r).pos))
    /\ [](\A r \in Requests :
             PipeOpen(r) =>
                 Len(Whole(conv[r].fileLog)) <= Len(Whole(conv[r].pipeLog)) + 1)
    /\ StalledForGood

\* One conversion has had a Frame read whole by its consumer, and another
\* is stalled behind a consumer that returned without closing the pipe.
C22_Witness ==
    \E q, r \in Requests :
        /\ WriteReturned(r) /\ PipeOpen(r) /\ Whole(conv[r].pipeLog) # <<>>
        /\ Stalled(q)


----------------------------------------------------------------------------
(* Claims about the live stream.                                           *)

\* ProcessYouTubeAudio returns a reader to r's goroutine.
ReturnsReader(r) == pc[r] = "acquire" /\ pc'[r] = "play"

\* r's conversion is running and has blocks left to parse.
BlocksLeft(r) ==
    /\ conv[r].st \in {"parse", "write"}
    /\ NextBlock(media.elems, conv[r].pos) <= Len(media.elems)

\* C23: ProcessYouTubeAudio returns the live reader without waiting for the
\* background conversion: when it returns the reader, the conversion has
\* only been started and has parsed and written nothing.
C23_ReaderReturnedBeforeConversion ==
    [][\A r \in Requests :
          ReturnsReader(r) =>
              /\ src'[r].kind = "pipe" /\ src'[r].open
              /\ conv'[r].st = "parse" /\ conv'[r].pos = 0
              /\ conv'[r].fileLog = <<>> /\ conv'[r].pipeLog = <<>>
              /\ ~pipe'[r].wclosed]_vars

\* The playback consumer has sent a Frame to the sink while the conversion
\* is still running, with later blocks not yet parsed.
C23_Witness ==
    \E r \in Requests :
        /\ src[r].kind = "pipe"
        /\ Sent(r) # <<>>
        /\ BlocksLeft(r)


\* mkvparse.Parse returned an error to r's conversion goroutine, which has
\* returned.
ParseFailed(r) == conv[r].st = "done" /\ conv[r].err

----------------------------------------------------------------------------
(* Claims about the failures of the acquisition.                           *)

IdOf(r) == IF req[r].videoID = "" THEN req[r].target ELSE req[r].videoID

\* r's ProcessYouTubeAudio created (or emptied) the cache file and returned
\* an error: the media GET failed or answered with a status other than 200.
GetFails(r) ==
    /\ pc[r] = "acquire" /\ pc'[r] = "done"
    /\ disk[IdOf(r)] # [exists |-> TRUE, data |-> <<>>]
    /\ disk'[IdOf(r)] = [exists |-> TRUE, data |-> <<>>]

\* C25: when the media GET fails or answers with a status other than 200,
\* ProcessYouTubeAudio returns an error, which the requester is told, and no
\* reader; it starts no conversion, has closed the pipe reader and left no
\* file handle or response body open; and the request is over: nothing is
\* retried.
C25_FailedGetReleasesEverything ==
    /\ [][\A r \in Requests :
             GetFails(r) =>
                 /\ "Error processing audio" \in msgs'[r]
                 /\ src'[r] = NoSrc
                 /\ conv'[r] = NoConv
                 /\ pipe'[r].rclosed]_vars
    /\ [][\A r \in Requests :
             (pc[r] = "done" /\ conv[r] = NoConv) =>
                 (pc'[r] = "done" /\ conv'[r] = NoConv)]_vars

\* A media GET failed for a request, which is over with no reader, no
\* conversion and a closed pipe reader.
C25_Witness ==
    \E r \in Requests :
        /\ pc[r] = "done"
        /\ "Error processing audio" \in msgs[r]
        /\ disk[IdOf(r)] = [exists |-> TRUE, data |-> <<>>]
        /\ pipe[r].rclosed /\ src[r] = NoSrc /\ conv[r] = NoConv


----------------------------------------------------------------------------
(* Processor.LoadAudioCache and utils.ExtractVideoIDFromFilename, with     *)
(* file names as strings of characters.                                    *)

MaxEntries == 2   \* LoadSpec: entries in the audio directory

IdLen == 11       \* {11} in the pattern of ExtractVideoIDFromFilename

\* The characters the pattern's \w matches, among those of the names below.
WordChars ==
    {"a", "b", "c", "d", "e", "f", "g", "k", "m", "p", "w", "x", "y",
     "Q", "W", "X", "Z", "3", "4", "9", "_"}

\* [\w-]
IdChar(c) == c \in WordChars \/ c = "-"

DotDca == <<".", "d", "c", "a">>

AudioDir == <<"a", "u", "d", "i", "o", "/">>

\* strings.HasSuffix(s, suffix)
HasSuffix(s, suffix) ==
    /\ Len(s) >= Len(suffix)
    /\ SubSeq(s, Len(s) - Len(suffix) + 1, Len(s)) = suffix

\* The pattern ([\w-]{11})\.(dca)$ is tied to the end of the name only: it
\* matches when the name ends in ".dca" and the IdLen characters before that
\* are id characters, whatever comes before them.
ExtractVideoIDFromFilename(filename) ==
    LET n == Len(filename) - Len(DotDca)
    IN  IF /\ n >= IdLen
           /\ HasSuffix(filename, DotDca)
           /\ \A i \in (n - IdLen + 1)..n : IdChar(filename[i])
        THEN [id |-> SubSeq(filename, n - IdLen + 1, n), found |-> TRUE]
        ELSE [id |-> <<>>, found |-> FALSE]

\* File names an audio directory may hold, in the order os.ReadDir lists
\* them (by byte).
NameList ==
    << <<".", "d", "c", "a">>,
       <<"a", "_", "b", "-", "c", "_", "d", "-", "e", "_", "f", ".", "d", "c", "a">>,
       <<"d", "Q", "w", "4", "w", "9", "W", "g", "!", "c", "Q", ".", "d", "c", "a">>,
       <<"d", "Q", "w", "4", "w", "9", "W", "g", "X", "c", ".", "d", "c", "a">>,
       <<"d", "Q", "w", "4", "w", "9", "W", "g", "X", "c", "Q">>,
       <<"d", "Q", "w", "4", "w", "9", "W", "g", "X", "c", "Q", ".", "d", "c", "a">>,
       <<"d", "Q", "w", "4", "w", "9", "W", "g", "X", "c", "Q", ".", "d", "c", "a", ".", "b", "a", "k">>,
       <<"d", "Q", "w", "4", "w", "9", "W", "g", "X", "c", "Q", ".", "m", "p", "3">>,
       <<"m", "y", " ", "d", "Q", "w", "4", "w", "9", "W", "g", "X", "c", "Q", ".", "d", "c", "a">>,
       <<"x", "d", "Q", "w", "4", "w", "9", "W", "g", "X", "c", "Q", ".", "d", "c", "a">> >>

\* An id the cache may hold before the load, with its path.
OtherID == <<"Z", "Z", "Z", "Z", "Z", "Z", "Z", "Z", "Z", "Z", "Z">>

\* The listings os.ReadDir may return: up to MaxEntries names, sorted, each a
\* file or a directory.
Listings ==
    UNION {[1..n -> [name : {NameList[i] : i \in DOMAIN NameList}, isDir : BOOLEAN]] :
               n \in 0..MaxEntries}

Position(name) == CHOOSE i \in DOMAIN NameList : NameList[i] = name

Sorted(l) == \A i, j \in DOMAIN l : i < j => Position(l[i].name) < Position(l[j].name)

LoadInit ==
    /\ BotIdle
    /\ disk = [i \in IDs |-> NoFile]
    /\ BotWorld(GoodMedia)
    /\ CodecIdle
    /\ FanoutIdle
    /\ mainCache \in {<< >>, [i \in {OtherID} |-> AudioDir \o OtherID \o DotDca]}
    /\ dir \in {l \in Listings : Sorted(l)}
    /\ dirPos = 0

\* Lines 142-151: one pass of the loop over the directory entries.
LoadEntry ==
    /\ dirPos < Len(dir)
    /\ LET file == dir[dirPos + 1]
       IN  IF ~file.isDir /\ HasSuffix(file.name, DotDca)
           THEN LET m == ExtractVideoIDFromFilename(file.name)
                IN  IF m.found
                    THEN mainCache' = Put(mainCache, m.id, AudioDir \o file.name)
                    ELSE mainCache' = mainCache
           ELSE mainCache' = mainCache
    /\ dirPos' = dirPos + 1
    /\ UNCHANGED <<pc, req, loc, cache, disk, conv, pipe, src, VoiceConnections,
                   session, vcs, events, msgs, media, crashed, faults, dir,
                   codecVars, mwVars>>

LoadNext == LoadEntry

LoadSpec == LoadInit /\ [][LoadNext]_vars

\* The entry the loop is at.
Entry == dir[dirPos + 1]

\* The name is, as a whole, an id of IdLen id characters followed by ".dca".
IsIdDotDca(name) ==
    /\ Len(name) = IdLen + Len(DotDca)
    /\ \A i \in 1..IdLen : IdChar(name[i])
    /\ SubSeq(name, IdLen + 1, Len(name)) = DotDca

\* C26: LoadAudioCache indexes a directory entry if and only if it is not a
\* directory and its whole name is an id followed by ".dca"; it then maps the
\* id to audio/<name> and leaves the entries of other ids as they were; any
\* other entry adds nothing.
C26_IndexesExactlyIdFiles ==
    [][dirPos' = dirPos + 1 =>
          IF ~Entry.isDir /\ IsIdDotDca(Entry.name)
          THEN mainCache' = Put(mainCache, SubSeq(Entry.name, 1, IdLen),
                                AudioDir \o Entry.name)
          ELSE mainCache' = mainCache]_vars


----------------------------------------------------------------------------
(* Claims about the cache files on disk.                                   *)

\* C27: once a cache file has been completely written, no later request
\* truncates or rewrites it, whether the request names the id or reaches it
\* by a free-text query, and also while another session is reading the file.
C27_CompleteFileNeverRewritten ==
    [][\A id \in IDs : CacheComplete(id) => disk'[id] = disk[id]]_vars


----------------------------------------------------------------------------
(* Claims about sessions that share a guild.                               *)

\* C28: whenever a session is inside the Speaking loop, its guild's entry in
\* VoiceConnections is present and its voice connection has not been
\* disconnected: the teardown of one session never takes them from another
\* session that is still speaking.
C28_SpeakingSessionKeepsItsSink ==
    \A r \in Requests :
        Speaking(r) =>
            /\ VoiceConnections[req[r].guild] # None
            /\ vcs[loc[r].vc].connected


----------------------------------------------------------------------------
(* Claims about the length prefix.                                         *)

\* C29: for every audio block handed to HandleBinary, blocks shorter than 4
\* bytes and longer than 65539 bytes included, the handler writes a buffer
\* whose 2-byte length prefix equals the number of payload bytes after it.
C29_PrefixEqualsPayloadLength ==
    /\ cRes # "panic"
    /\ \A i \in DOMAIN cOut : GetUint16(Take(cOut[i], 2)) = Len(cOut[i]) - 2


----------------------------------------------------------------------------
(* Claims about the end of a session.                                      *)

\* PlayAudio has returned from its teardown: vc.Disconnect(), the delete of
\* the marker, and the deferred close of the source have run.
Disconnected(r) == pc[r] = "done" /\ ~src[r].open

\* C30: every session that enters the Speaking loop eventually reaches
\* Disconnected, under fair scheduling of the goroutines, with a sink that
\* takes every Frame; for a live pipe this includes that the conversion
\* eventually closes the pipe.
C30_SpeakingSessionEnds ==
    \A r \in Requests : Speaking(r) ~> Disconnected(r)


\* C31: stop-speaking is signalled to the playback sink while the voice
\* connection is still connected: every vc.Speaking(false) of a session is
\* made on a live connection and comes before the session's vc.Disconnect().
C31_StopSpeakingWhileConnected ==
    \A r \in Requests :
        \A i \in At(r, "stop") :
            /\ events[r][i].live
            /\ \A j \in At(r, "disconnect") : i < j

====
